---------------------------- MODULE Spec2Model ----------------------------
(***************************************************************************)
(* A model of exercises/graphs/graph_solution.py: the DiGraph adjacency    *)
(* structure, its mutation API, and the traversals (dfs, bfs, distances)   *)
(* with their Visit / VertexLog bookkeeping; and of                        *)
(* exercises/queues/italian_queue_solution.py: the ItalianQueue.           *)
(*                                                                         *)
(* Spec      : any sequence of calls of the DiGraph structural API on a    *)
(*             graph that starts empty.                                    *)
(* SpecVisit : one traversal (bfs, distances, or dfs followed by further   *)
(*             dfs calls on the Visit it returned) on a graph that was     *)
(*             built with add_vertex / add_edge, run loop iteration by     *)
(*             loop iteration.                                             *)
(* SpecBfs   : the bfs and distances calls of SpecVisit, with fairness.    *)
(* SpecEq    : one comparison of two graphs with ==.                       *)
(* SpecDag   : one call of dag, then has_self_loops on its result.         *)
(* SpecQueue : any sequence of enqueue and dequeue calls on an             *)
(*             ItalianQueue that starts empty.                             *)
(***************************************************************************)
EXTENDS Integers, Sequences, FiniteSets, TLC

VARIABLES
    _edges,     \* DiGraph._edges: vertex -> list of target verteces
    call,       \* the call in progress or last completed: [op, args]
    ret,        \* outcome of the last completed call: raise / return value
    pre,        \* DiGraph._edges as it was when the call was entered
    pc,         \* position of the traversal in progress
    _logs,      \* Visit._logs: vertex -> VertexLog
    distance,   \* the 'distance' attribute distances() adds to some logs
    queue,      \* the Queue of bfs / distances
    stack,      \* the recursion stack of dfs: frames [source, todo]
    writes,     \* the assignments to VertexLog.parent so far: <<vertex, parent, nth>>
    puts,       \* the number of queue.put calls of the traversal so far
    nodes,      \* the Node objects made so far: id -> [_data, _group, _next]
    _head,      \* ItalianQueue._head: a node id, or NoNode
    _tail,      \* ItalianQueue._tail
    _size       \* ItalianQueue._size

vars == <<_edges, call, ret, pre, pc, _logs, distance, queue, stack, writes, puts,
          nodes, _head, _tail, _size>>

visitVars == <<pc, _logs, distance, queue, stack, writes, puts>>

italianVars == <<nodes, _head, _tail, _size>>

(***************************************************************************)
(* Values.  A vertex "can be any object": the universe holds Python's None *)
(* beside ordinary labels.  None is also what VertexLog.parent holds when  *)
(* no parent was assigned.                                                 *)
(***************************************************************************)
None == "None"

\* the vertex arguments of the traversal specification
Vertices == {None, "a", "b", "c"}

\* the vertex arguments of the calls of the structural API in Spec
ApiVertices == {None, "a", "b"}

\* Bound: the largest number of edges a graph of the model holds.
MaxEdges == 3

\* Bound: a Visit is passed on to a further dfs call while its clock,
\* last_time(), is at most MaxClock.
MaxClock == 4

\* Bound: the longest vertex list passed to dag.
MaxListLen == 3

\* Python's None where a Node is expected (Node._next, _head, _tail): no
\* node has this id
NoNode == 0

\* Bound: the largest number of Node objects, one per enqueue call.
MaxNodes == 4

\* the data and the groups the elements of the ItalianQueue are drawn from
QueueData == {"x", "y"}

QueueGroups == {"g", "h", "k"}

Raise == [kind |-> "raise"]

Return(value) == [kind |-> "return", value |-> value]

NoGraph == [v \in {} |-> <<>>]

(***************************************************************************)
(* Python list helpers.                                                    *)
(***************************************************************************)
Elems(list) == {list[i] : i \in 1..Len(list)}

RECURSIVE list_remove(_, _)
\* list.remove(x): drops the first occurrence of x
list_remove(list, x) ==
    IF list = <<>> THEN <<>>
    ELSE IF Head(list) = x THEN Tail(list)
    ELSE <<Head(list)>> \o list_remove(Tail(list), x)

RECURSIVE SumLen(_, _)
SumLen(g, S) ==
    IF S = {} THEN 0
    ELSE LET v == CHOOSE x \in S : TRUE
         IN  Len(g[v]) + SumLen(g, S \ {v})

NumEdges(g) == SumLen(g, DOMAIN g)

\* All sequences that list every element of S exactly once.
RECURSIVE Orders(_)
Orders(S) ==
    IF S = {} THEN {<<>>}
    ELSE UNION {{<<x>> \o o : o \in Orders(S \ {x})} : x \in S}

(***************************************************************************)
(* DiGraph: structural operations, as functions of the dictionary g.       *)
(***************************************************************************)
verteces(g) == DOMAIN g

has_vertex(g, vertex) == vertex \in DOMAIN g

is_empty(g) == Cardinality(DOMAIN g) = 0

add_vertex(g, vertex) ==
    IF vertex \notin DOMAIN g
    THEN [v \in DOMAIN g \cup {vertex} |-> IF v = vertex THEN <<>> ELSE g[v]]
    ELSE g

remove_vertex_raises(g, vertex) == vertex \notin DOMAIN g

\* mutant of remove_vertex_strip: the lists are left as they are
remove_vertex_strip_nothing(g, vertex) == g

\* the dictionary after the loop that strips vertex from every list
remove_vertex_strip(g, vertex) ==
    [source \in DOMAIN g |->
        IF vertex \in Elems(g[source])
        THEN list_remove(g[source], vertex)
        ELSE g[source]]

\* mutant of remove_vertex_result: the list is taken before the loop strips it
remove_vertex_result_unstripped(g, vertex) == g[vertex]

\* what _edges.pop(vertex) returns
remove_vertex_result(g, vertex) == remove_vertex_strip(g, vertex)[vertex]

remove_vertex(g, vertex) ==
    [source \in DOMAIN g \ {vertex} |-> remove_vertex_strip(g, vertex)[source]]

\* mutant of add_edge_raises: the check of the target vertex is missing
add_edge_raises_source_only(g, vertex1, vertex2) == vertex1 \notin DOMAIN g

add_edge_raises(g, vertex1, vertex2) ==
    vertex1 \notin DOMAIN g \/ vertex2 \notin DOMAIN g

\* mutant of add_edge: the target is appended without the membership test
add_edge_always_appends(g, vertex1, vertex2) ==
    [g EXCEPT ![vertex1] = Append(@, vertex2)]

add_edge(g, vertex1, vertex2) ==
    IF vertex2 \notin Elems(g[vertex1])
    THEN [g EXCEPT ![vertex1] = Append(@, vertex2)]
    ELSE g

adj_raises(g, vertex) == vertex \notin DOMAIN g

adj(g, vertex) == g[vertex]

has_edge_raises(g, source, target) ==
    ~has_vertex(g, source) \/ ~has_vertex(g, target)

has_edge(g, source, target) == target \in Elems(g[source])

\* mutant of eq: the adjacency lists are compared as lists
eq_ordered(self, other) == self = other

\* self == other
eq(self, other) ==
    IF verteces(self) # verteces(other) THEN FALSE
    ELSE \A source \in DOMAIN self : Elems(self[source]) = Elems(other[source])

has_self_loops(g) == \E source \in DOMAIN g : source \in Elems(g[source])

\* mutant of remove_self_loops: the first target goes, not the loop
remove_self_loops_drops_first(g) ==
    [source \in DOMAIN g |->
        IF source \in Elems(g[source]) THEN Tail(g[source]) ELSE g[source]]

remove_self_loops(g) ==
    [source \in DOMAIN g |->
        IF source \in Elems(g[source])
        THEN list_remove(g[source], source)
        ELSE g[source]]

RECURSIVE reverse_targets_same_direction(_, _, _)
\* mutant of reverse_targets: add_edge(source, target), the edge is not turned
reverse_targets_same_direction(g, source, targets) ==
    IF targets = <<>> THEN g
    ELSE reverse_targets_same_direction(add_edge(g, source, Head(targets)),
                                        source, Tail(targets))

RECURSIVE reverse_targets_drops_loops(_, _, _)
\* mutant of reverse_targets: an edge from source to itself is not added back
reverse_targets_drops_loops(g, source, targets) ==
    IF targets = <<>> THEN g
    ELSE reverse_targets_drops_loops(
             IF Head(targets) = source THEN g ELSE add_edge(g, Head(targets), source),
             source, Tail(targets))

RECURSIVE reverse_targets(_, _, _)
\* inner loop of reverse: add_edge(target, source) for each target in turn
reverse_targets(g, source, targets) ==
    IF targets = <<>> THEN g
    ELSE reverse_targets(add_edge(g, Head(targets), source), source, Tail(targets))

RECURSIVE reverse_sources(_, _, _)
\* outer loop of reverse over the keys of old_edges, taken in the order keys
reverse_sources(g, old_edges, keys) ==
    IF keys = <<>> THEN g
    ELSE reverse_sources(reverse_targets(g, Head(keys), old_edges[Head(keys)]),
                         old_edges, Tail(keys))

\* reverse(), with the dictionary's iteration order given as keys
reverse(old_edges, keys) ==
    reverse_sources([v \in DOMAIN old_edges |-> <<>>], old_edges, keys)

(***************************************************************************)
(* Spec: the structural API, one action per method call.                   *)
(***************************************************************************)
NoVisit ==
    /\ pc = "idle"
    /\ _logs = NoGraph
    /\ distance = NoGraph
    /\ queue = <<>>
    /\ stack = <<>>
    /\ writes = {}
    /\ puts = 0

\* ItalianQueue.__init__
EmptyItalianQueue ==
    /\ nodes = <<>>
    /\ _head = NoNode
    /\ _tail = NoNode
    /\ _size = 0

Init ==
    /\ _edges = NoGraph
    /\ call = [op |-> "__init__", args |-> <<>>]
    /\ ret = Return(None)
    /\ pre = NoGraph
    /\ NoVisit
    /\ EmptyItalianQueue

Enter(op, args) ==
    /\ call' = [op |-> op, args |-> args]
    /\ pre' = _edges

AddVertex(vertex) ==
    /\ Enter("add_vertex", <<vertex>>)
    /\ _edges' = add_vertex(_edges, vertex)
    /\ ret' = Return(None)
    /\ UNCHANGED visitVars
    /\ UNCHANGED italianVars

RemoveVertex(vertex) ==
    /\ Enter("remove_vertex", <<vertex>>)
    /\ IF remove_vertex_raises(_edges, vertex)
       THEN /\ ret' = Raise
            /\ UNCHANGED _edges
       ELSE /\ ret' = Return(remove_vertex_result(_edges, vertex))
            /\ _edges' = remove_vertex(_edges, vertex)
    /\ UNCHANGED visitVars
    /\ UNCHANGED italianVars

AddEdge(vertex1, vertex2) ==
    /\ Enter("add_edge", <<vertex1, vertex2>>)
    /\ IF add_edge_raises(_edges, vertex1, vertex2)
       THEN /\ ret' = Raise
            /\ UNCHANGED _edges
       ELSE /\ NumEdges(add_edge(_edges, vertex1, vertex2)) <= MaxEdges
            /\ ret' = Return(None)
            /\ _edges' = add_edge(_edges, vertex1, vertex2)
    /\ UNCHANGED visitVars
    /\ UNCHANGED italianVars

HasEdge(source, target) ==
    /\ Enter("has_edge", <<source, target>>)
    /\ IF has_edge_raises(_edges, source, target)
       THEN ret' = Raise
       ELSE ret' = Return(has_edge(_edges, source, target))
    /\ UNCHANGED <<_edges, visitVars>>
    /\ UNCHANGED italianVars

Adj(vertex) ==
    /\ Enter("adj", <<vertex>>)
    /\ IF adj_raises(_edges, vertex)
       THEN ret' = Raise
       ELSE ret' = Return(adj(_edges, vertex))
    /\ UNCHANGED <<_edges, visitVars>>
    /\ UNCHANGED italianVars

Reverse ==
    /\ Enter("reverse", <<>>)
    /\ \E keys \in Orders(DOMAIN _edges) : _edges' = reverse(_edges, keys)
    /\ ret' = Return(None)
    /\ UNCHANGED visitVars
    /\ UNCHANGED italianVars

HasSelfLoops ==
    /\ Enter("has_self_loops", <<>>)
    /\ ret' = Return(has_self_loops(_edges))
    /\ UNCHANGED <<_edges, visitVars>>
    /\ UNCHANGED italianVars

RemoveSelfLoops ==
    /\ Enter("remove_self_loops", <<>>)
    /\ _edges' = remove_self_loops(_edges)
    /\ ret' = Return(None)
    /\ UNCHANGED visitVars
    /\ UNCHANGED italianVars

Next ==
    \/ \E vertex \in ApiVertices : AddVertex(vertex)
    \/ \E vertex \in ApiVertices : RemoveVertex(vertex)
    \/ \E vertex1, vertex2 \in ApiVertices : AddEdge(vertex1, vertex2)
    \/ \E source, target \in ApiVertices : HasEdge(source, target)
    \/ \E vertex \in ApiVertices : Adj(vertex)
    \/ Reverse
    \/ HasSelfLoops
    \/ RemoveSelfLoops

Spec == Init /\ [][Next]_vars

(***************************************************************************)
(* Visit and VertexLog.  A Visit is its dictionary _logs.                  *)
(***************************************************************************)
VertexLog(vertex) ==
    [vertex |-> vertex, discovery_time |-> -1, finish_time |-> -1, parent |-> None]

is_discovered(logs, vertex) ==
    vertex \in DOMAIN logs /\ logs[vertex].discovery_time # -1

\* the dictionary after visit.log(vertex): the log is created when missing
log(logs, vertex) ==
    IF vertex \notin DOMAIN logs
    THEN [v \in DOMAIN logs \cup {vertex} |->
             IF v = vertex THEN VertexLog(vertex) ELSE logs[v]]
    ELSE logs

Max(a, b) == IF a > b THEN a ELSE b

RECURSIVE max_time(_, _, _)
max_time(logs, S, acc) ==
    IF S = {} THEN acc
    ELSE LET v == CHOOSE x \in S : TRUE
         \* m is max_time after the log of v was looked at, computed once
         IN  CHOOSE r \in {max_time(logs, S \ {v}, m) :
                 m \in {Max(Max(acc, logs[v].discovery_time), logs[v].finish_time)}} : TRUE

\* mutant of last_time: the finish times are not looked at
last_time_discovery_only(logs) ==
    max_time([v \in DOMAIN logs |-> [logs[v] EXCEPT !.finish_time = -1]], DOMAIN logs, 0)

last_time(logs) == max_time(logs, DOMAIN logs, 0)

\* the vertices whose logs Visit.logs() keeps (get_all = False)
logs_kept(logs) == {v \in DOMAIN logs : logs[v].discovery_time > -1}

\* Visit.verteces(): the kept vertices sorted by discovery_time.  Every
\* order the sort may give when two keys are equal is in the set.
visit_verteces(logs) ==
    {o \in Orders(logs_kept(logs)) :
        \A i, j \in 1..Len(o) :
            i < j => logs[o[i]].discovery_time <= logs[o[j]].discovery_time}

(***************************************************************************)
(* bfs.  The body of the for loop over adj(vertex), threaded through the   *)
(* record st = [logs, queue, writes, puts].                                *)
(***************************************************************************)
bfs_assigns(logs, neighbor, source) ==
    logs[neighbor].parent = None /\ neighbor # source

\* mutant of bfs_put: the neighbor goes to the front (a stack, not a queue)
bfs_put_in_front(q, neighbor) == <<neighbor>> \o q

\* queue.put(neighbor)
bfs_put(q, neighbor) == Append(q, neighbor)

bfs_neighbor(st, vertex, source, neighbor) ==
    LET logs1 == log(st.logs, neighbor)
        hit == bfs_assigns(logs1, neighbor, source)
    IN  [logs |-> IF hit THEN [logs1 EXCEPT ![neighbor].parent = vertex] ELSE logs1,
         queue |-> bfs_put(st.queue, neighbor),
         writes |-> IF hit THEN st.writes \cup {<<neighbor, vertex, Cardinality(st.writes)>>}
                    ELSE st.writes,
         puts |-> st.puts + 1]

RECURSIVE bfs_for(_, _, _, _)
bfs_for(st, vertex, source, todo) ==
    IF todo = <<>> THEN st
    \* s is the state after the body ran for Head(todo), computed once
    ELSE CHOOSE r \in {bfs_for(s, vertex, source, Tail(todo)) :
                          s \in {bfs_neighbor(st, vertex, source, Head(todo))}} : TRUE

\* visit.log(vertex).discovery_time = visit.last_time() + 1
discover(logs, vertex) ==
    [log(logs, vertex) EXCEPT ![vertex].discovery_time = last_time(logs) + 1]

\* mutant of bfs_iteration: the test 'not visit.is_discovered(vertex)' is missing
bfs_iteration_expands_again(st, g, source) ==
    LET vertex == Head(st.queue)
        popped == [st EXCEPT !.queue = Tail(st.queue)]
    IN  bfs_for([popped EXCEPT !.logs = discover(st.logs, vertex)],
                vertex, source, adj(g, vertex))

\* one iteration of the while loop of bfs
bfs_iteration(st, g, source) ==
    LET vertex == Head(st.queue)
        popped == [st EXCEPT !.queue = Tail(st.queue)]
    IN  IF ~is_discovered(st.logs, vertex)
        THEN bfs_for([popped EXCEPT !.logs = discover(st.logs, vertex)],
                     vertex, source, adj(g, vertex))
        ELSE popped

bfs_raises(g, source) == is_empty(g) \/ source \notin verteces(g)

(***************************************************************************)
(* distances: the loop of bfs, with the 'distance' attribute threaded      *)
(* through st = [logs, queue, writes, puts, distance].                     *)
(***************************************************************************)
distances_raises(g, source) == source \notin verteces(g)

distances_assigns(logs, neighbor, source) ==
    logs[neighbor].parent = None /\ neighbor # source

distances_neighbor(st, vertex, source, neighbor) ==
    LET logs1 == log(st.logs, neighbor)
        hit == distances_assigns(logs1, neighbor, source)
    IN  [logs |-> IF hit THEN [logs1 EXCEPT ![neighbor].parent = vertex] ELSE logs1,
         queue |-> Append(st.queue, neighbor),
         writes |-> IF hit THEN st.writes \cup {<<neighbor, vertex, Cardinality(st.writes)>>}
                    ELSE st.writes,
         puts |-> st.puts + 1,
         distance |-> IF hit
                      THEN [v \in DOMAIN st.distance \cup {neighbor} |->
                               IF v = neighbor THEN st.distance[vertex] + 1
                               ELSE st.distance[v]]
                      ELSE st.distance]

RECURSIVE distances_for(_, _, _, _)
distances_for(st, vertex, source, todo) ==
    IF todo = <<>> THEN st
    \* s is the state after the body ran for Head(todo), computed once
    ELSE CHOOSE r \in {distances_for(s, vertex, source, Tail(todo)) :
                          s \in {distances_neighbor(st, vertex, source, Head(todo))}} : TRUE

\* one iteration of the while loop of distances
distances_iteration(st, g, source) ==
    LET vertex == Head(st.queue)
        popped == [st EXCEPT !.queue = Tail(st.queue)]
    IN  IF ~is_discovered(st.logs, vertex)
        THEN distances_for([popped EXCEPT !.logs = discover(st.logs, vertex)],
                           vertex, source, adj(g, vertex))
        ELSE popped

\* the dictionary distances returns: -1 everywhere, then the kept logs' distance
distances_result(g, logs, dist) ==
    [v \in DOMAIN g \cup logs_kept(logs) |->
        IF v \in logs_kept(logs) THEN dist[v] ELSE -1]

(***************************************************************************)
(* dfs.  The recursion is a stack of frames [source, todo]: todo is what   *)
(* is left of the copy adj(source) the for loop runs over.                 *)
(***************************************************************************)
\* mutant of dfs_raises: a graph of one vertex counts as empty too
dfs_raises_off_by_one(g) == Cardinality(DOMAIN g) <= 1

dfs_raises(g) == is_empty(g)

\* source_log = visit.log(source); source_log.discovery_time = last_time() + 1
dfs_discover(logs, source) ==
    [log(logs, source) EXCEPT ![source].discovery_time = last_time(log(logs, source)) + 1]

\* mutant of dfs_descends: the 'not' of the test is missing
dfs_descends_into_discovered(logs, neighbor) == is_discovered(logs, neighbor)

dfs_descends(logs, neighbor) == ~is_discovered(logs, neighbor)

\* visit.log(neighbor).parent = source
dfs_set_parent(logs, neighbor, source) ==
    [log(logs, neighbor) EXCEPT ![neighbor].parent = source]

\* mutant of dfs_finish: the clock is not advanced
dfs_finish_same_time(logs, source) ==
    [logs EXCEPT ![source].finish_time = last_time(logs)]

\* source_log.finish_time = visit.last_time() + 1
dfs_finish(logs, source) ==
    [logs EXCEPT ![source].finish_time = last_time(logs) + 1]

(***************************************************************************)
(* SpecVisit: a graph built with add_vertex and add_edge, then one         *)
(* traversal; a dfs may be followed by dfs calls on the same Visit.        *)
(***************************************************************************)
RECURSIVE BuiltOn(_, _)
\* the graphs that add_vertex calls with vertices of U, followed by at most
\* k add_edge calls, build
BuiltOn(U, k) ==
    IF k = 0 THEN {[v \in V |-> <<>>] : V \in SUBSET U}
    ELSE LET B == BuiltOn(U, k - 1)
         IN  B \cup UNION {{add_edge(g, e[1], e[2]) : e \in (DOMAIN g) \X (DOMAIN g)} : g \in B}

Built(k) == BuiltOn(Vertices, k)

Graphs == Built(MaxEdges)

InitVisit ==
    /\ _edges \in Graphs
    /\ call = [op |-> "__init__", args |-> <<>>]
    /\ ret = Return(None)
    /\ pre = _edges
    /\ NoVisit
    /\ EmptyItalianQueue

BfsCall(source) ==
    /\ pc = "idle"
    /\ Enter("bfs", <<source>>)
    /\ IF bfs_raises(_edges, source)
       THEN /\ ret' = Raise
            /\ pc' = "done"
            /\ UNCHANGED <<queue, puts>>
       ELSE /\ pc' = "bfs"
            /\ queue' = <<source>>
            /\ puts' = 1
            /\ UNCHANGED ret
    /\ UNCHANGED <<_edges, _logs, distance, stack, writes>>
    /\ UNCHANGED italianVars

BfsLoop ==
    /\ pc = "bfs"
    /\ queue # <<>>
    /\ LET st == bfs_iteration([logs |-> _logs, queue |-> queue, writes |-> writes,
                                puts |-> puts],
                               _edges, call.args[1])
       IN  /\ _logs' = st.logs
           /\ queue' = st.queue
           /\ writes' = st.writes
           /\ puts' = st.puts
    /\ UNCHANGED <<_edges, call, ret, pre, pc, distance, stack>>
    /\ UNCHANGED italianVars

BfsReturn ==
    /\ pc = "bfs"
    /\ queue = <<>>
    /\ ret' = Return(_logs)
    /\ pc' = "done"
    /\ UNCHANGED <<_edges, call, pre, _logs, distance, queue, stack, writes, puts>>
    /\ UNCHANGED italianVars

DistancesCall(source) ==
    /\ pc = "idle"
    /\ Enter("distances", <<source>>)
    /\ IF distances_raises(_edges, source)
       THEN /\ ret' = Raise
            /\ pc' = "done"
            /\ UNCHANGED <<_logs, distance, queue, puts>>
       ELSE /\ pc' = "distances"
            /\ queue' = <<source>>
            /\ puts' = 1
            /\ _logs' = log(_logs, source)
            /\ distance' = [v \in {source} |-> 0]
            /\ UNCHANGED ret
    /\ UNCHANGED <<_edges, stack, writes>>
    /\ UNCHANGED italianVars

DistancesLoop ==
    /\ pc = "distances"
    /\ queue # <<>>
    /\ LET st == distances_iteration([logs |-> _logs, queue |-> queue,
                                      writes |-> writes, puts |-> puts,
                                      distance |-> distance],
                                     _edges, call.args[1])
       IN  /\ _logs' = st.logs
           /\ queue' = st.queue
           /\ writes' = st.writes
           /\ puts' = st.puts
           /\ distance' = st.distance
    /\ UNCHANGED <<_edges, call, ret, pre, pc, stack>>
    /\ UNCHANGED italianVars

DistancesReturn ==
    /\ pc = "distances"
    /\ queue = <<>>
    /\ ret' = Return(distances_result(_edges, _logs, distance))
    /\ pc' = "done"
    /\ UNCHANGED <<_edges, call, pre, _logs, distance, queue, stack, writes, puts>>
    /\ UNCHANGED italianVars

\* dfs(source) with visit = None: the empty-graph check, the discovery of
\* source, and the call adj(source) that opens the for loop
DfsCall(source) ==
    /\ pc = "idle"
    /\ Enter("dfs", <<source>>)
    /\ IF dfs_raises(_edges)
       THEN /\ ret' = Raise
            /\ pc' = "done"
            /\ UNCHANGED <<_logs, stack>>
       ELSE /\ _logs' = dfs_discover(_logs, source)
            /\ IF adj_raises(_edges, source)
               THEN /\ ret' = Raise
                    /\ pc' = "done"
                    /\ UNCHANGED stack
               ELSE /\ pc' = "dfs"
                    /\ stack' = <<[source |-> source, todo |-> adj(_edges, source)]>>
                    /\ UNCHANGED ret
    /\ UNCHANGED <<_edges, distance, queue, writes, puts>>
    /\ UNCHANGED italianVars

\* dfs(source, visit) with the Visit an earlier dfs call returned, or was
\* given before it raised: the same steps as DfsCall, on the logs as they are
DfsAgain(source) ==
    /\ pc = "done"
    /\ call.op = "dfs"
    /\ ret.kind = "return" \/ Len(call.args) = 2
    /\ last_time(_logs) <= MaxClock
    /\ Enter("dfs", <<source, _logs>>)
    /\ IF dfs_raises(_edges)
       THEN /\ ret' = Raise
            /\ pc' = "done"
            /\ UNCHANGED <<_logs, stack>>
       ELSE /\ _logs' = dfs_discover(_logs, source)
            /\ IF adj_raises(_edges, source)
               THEN /\ ret' = Raise
                    /\ pc' = "done"
                    /\ UNCHANGED stack
               ELSE /\ pc' = "dfs"
                    /\ stack' = <<[source |-> source, todo |-> adj(_edges, source)]>>
                    /\ ret' = ret
    /\ UNCHANGED <<_edges, distance, queue, writes, puts>>
    /\ UNCHANGED italianVars

\* one iteration of the for loop of the innermost dfs call; the recursive
\* call it may make runs up to the start of its own for loop.  That call
\* cannot raise: the graph holds frame.source, so it is not empty, and
\* neighbor comes from an adjacency list, whose targets are registered.
DfsLoop ==
    /\ pc = "dfs"
    /\ stack # <<>>
    /\ Head(stack).todo # <<>>
    /\ LET frame == Head(stack)
           neighbor == Head(frame.todo)
           rest == <<[frame EXCEPT !.todo = Tail(frame.todo)]>> \o Tail(stack)
       IN  IF dfs_descends(_logs, neighbor)
           THEN /\ _logs' = dfs_discover(dfs_set_parent(_logs, neighbor, frame.source),
                                         neighbor)
                /\ writes' = writes \cup {<<neighbor, frame.source, Cardinality(writes)>>}
                /\ stack' = <<[source |-> neighbor, todo |-> adj(_edges, neighbor)]>> \o rest
           ELSE /\ stack' = rest
                /\ UNCHANGED <<_logs, writes>>
    /\ UNCHANGED <<_edges, call, ret, pre, pc, distance, queue, puts>>
    /\ UNCHANGED italianVars

\* the for loop of the innermost dfs call is over: it finishes and returns
DfsFinish ==
    /\ pc = "dfs"
    /\ stack # <<>>
    /\ Head(stack).todo = <<>>
    /\ _logs' = dfs_finish(_logs, Head(stack).source)
    /\ stack' = Tail(stack)
    /\ IF Tail(stack) = <<>>
       THEN /\ ret' = Return(_logs')
            /\ pc' = "done"
       ELSE UNCHANGED <<ret, pc>>
    /\ UNCHANGED <<_edges, call, pre, distance, queue, writes, puts>>
    /\ UNCHANGED italianVars

NextVisit ==
    \/ \E source \in Vertices : BfsCall(source)
    \/ BfsLoop
    \/ BfsReturn
    \/ \E source \in Vertices : DistancesCall(source)
    \/ DistancesLoop
    \/ DistancesReturn
    \/ \E source \in Vertices : DfsCall(source)
    \/ \E source \in Vertices : DfsAgain(source)
    \/ DfsLoop
    \/ DfsFinish

SpecVisit == InitVisit /\ [][NextVisit]_vars

(***************************************************************************)
(* SpecBfs: the queue traversals of SpecVisit alone, bfs and distances,    *)
(* with the fairness of a loop that nothing interrupts: a call that can    *)
(* take its next step takes it.                                            *)
(***************************************************************************)
InitBfs ==
    /\ _edges \in BuiltOn(ApiVertices, MaxEdges)
    /\ call = [op |-> "__init__", args |-> <<>>]
    /\ ret = Return(NoGraph)
    /\ pre = _edges
    /\ NoVisit
    /\ EmptyItalianQueue

NextBfs ==
    \/ \E source \in ApiVertices : BfsCall(source)
    \/ BfsLoop
    \/ BfsReturn
    \/ \E source \in ApiVertices : DistancesCall(source)
    \/ DistancesLoop
    \/ DistancesReturn

SpecBfs == InitBfs /\ [][NextBfs]_vars /\ WF_visitVars(NextBfs)

(***************************************************************************)
(* SpecEq: two graphs built with add_vertex and add_edge, in any order of  *)
(* the calls, compared with == once.                                       *)
(***************************************************************************)
ApiGraphs == BuiltOn(ApiVertices, MaxEdges)

InitEq ==
    /\ _edges \in ApiGraphs
    /\ call = [op |-> "__init__", args |-> <<>>]
    /\ ret = Return(None)
    /\ pre = _edges
    /\ NoVisit
    /\ EmptyItalianQueue

\* self == other, other being a DiGraph
Eq(other) ==
    /\ pc = "idle"
    /\ Enter("__eq__", <<other>>)
    /\ ret' = Return(eq(_edges, other))
    /\ pc' = "done"
    /\ UNCHANGED <<_edges, _logs, distance, queue, stack, writes, puts>>
    /\ UNCHANGED italianVars

NextEq == \E other \in ApiGraphs : Eq(other)

SpecEq == InitEq /\ [][NextEq]_vars

(***************************************************************************)
(* dag(verteces), and SpecDag: one call of dag on a list of vertices, any  *)
(* contents, then has_self_loops() on the graph it returned.               *)
(***************************************************************************)
RECURSIVE dag_add_verteces(_, _)
\* for v in verteces: g.add_vertex(v)
dag_add_verteces(g, todo) ==
    IF todo = <<>> THEN g
    ELSE dag_add_verteces(add_vertex(g, Head(todo)), Tail(todo))

RECURSIVE dag_inner(_, _, _)
\* for w in verteces[i:]: g.add_edge(v, w)
dag_inner(g, v, todo) ==
    IF todo = <<>> THEN g
    ELSE dag_inner(add_edge(g, v, Head(todo)), v, Tail(todo))

RECURSIVE dag_outer(_, _, _, _)
\* for v in verteces: (the inner loop); i += 1.   todo is what is left of
\* the list the outer loop runs over
dag_outer(g, vertex_list, todo, i) ==
    IF todo = <<>> THEN g
    ELSE dag_outer(dag_inner(g, Head(todo), SubSeq(vertex_list, i + 1, Len(vertex_list))),
                   vertex_list, Tail(todo), i + 1)

dag(vertex_list) ==
    LET g == dag_add_verteces(NoGraph, vertex_list)
    IN  IF Len(vertex_list) > 1 THEN dag_outer(g, vertex_list, vertex_list, 1) ELSE g

VertexLists == UNION {[1..n -> Vertices] : n \in 0..MaxListLen}

Dag(vertex_list) ==
    /\ pc = "idle"
    /\ Enter("dag", <<vertex_list>>)
    /\ _edges' = dag(vertex_list)
    /\ ret' = Return(dag(vertex_list))
    /\ pc' = "done"
    /\ UNCHANGED <<_logs, distance, queue, stack, writes, puts>>
    /\ UNCHANGED italianVars

\* has_self_loops() on the graph dag returned
DagHasSelfLoops ==
    /\ pc = "done"
    /\ HasSelfLoops

NextDag ==
    \/ \E vertex_list \in VertexLists : Dag(vertex_list)
    \/ DagHasSelfLoops

SpecDag == Init /\ [][NextDag]_vars

(***************************************************************************)
(* exercises/queues/italian_queue_solution.py: Node and ItalianQueue.  A   *)
(* queue value is the record q = [nodes, _head, _tail, _size].             *)
(***************************************************************************)
Node(initdata, initgroup) ==
    [_data |-> initdata, _group |-> initgroup, _next |-> NoNode]

\* mutant of enqueue_scan: the groups are not looked at
enqueue_scan_appends(q, g, new_node, current, prev, found_group) ==
    [q EXCEPT !.nodes[q._tail]._next = new_node, !._tail = new_node]

RECURSIVE enqueue_scan(_, _, _, _, _, _)
\* the while loop of enqueue and the two lines after it
enqueue_scan(q, g, new_node, current, prev, found_group) ==
    IF current = NoNode
    THEN [q EXCEPT !.nodes[q._tail]._next = new_node, !._tail = new_node]
    ELSE IF found_group /\ q.nodes[current]._group # g
         THEN [q EXCEPT !.nodes[new_node]._next = current,
                        !.nodes[prev]._next = new_node]
         ELSE enqueue_scan(q, g, new_node, q.nodes[current]._next, current,
                           found_group \/ q.nodes[current]._group = g)

\* mutant of enqueue: the new node goes to the tail, the queue is not scanned
enqueue_at_tail(q, v, g) ==
    LET new_node == Len(q.nodes) + 1
        q1 == [q EXCEPT !.nodes = Append(q.nodes, Node(v, g)), !._size = q._size + 1]
    IN  IF q._head = NoNode
        THEN [q1 EXCEPT !._head = new_node, !._tail = new_node]
        ELSE [q1 EXCEPT !.nodes[q._tail]._next = new_node, !._tail = new_node]

enqueue(q, v, g) ==
    LET new_node == Len(q.nodes) + 1
        q1 == [q EXCEPT !.nodes = Append(q.nodes, Node(v, g)), !._size = q._size + 1]
    IN  IF q._head = NoNode
        THEN [q1 EXCEPT !._head = new_node, !._tail = new_node]
        ELSE enqueue_scan(q1, g, new_node, q._head, q._head, FALSE)

dequeue_raises(q) == q._head = NoNode

dequeue_result(q) == q.nodes[q._head]._data

\* mutant of dequeue: _tail is not reset when the last element leaves
dequeue_keeps_tail(q) ==
    [q EXCEPT !._size = q._size - 1, !._head = q.nodes[q._head]._next]

dequeue(q) ==
    LET next == q.nodes[q._head]._next
    IN  [q EXCEPT !._size = q._size - 1,
                  !._head = next,
                  !._tail = IF next = NoNode THEN NoNode ELSE q._tail]

size(q) == q._size

\* ItalianQueue.is_empty
queue_is_empty(q) == q._head = NoNode

RECURSIVE to_python_from(_, _, _)
\* the nodes from current on, following _next at most fuel times
to_python_from(heap, current, fuel) ==
    IF current = NoNode \/ fuel = 0 THEN <<>>
    ELSE <<current>> \o to_python_from(heap, heap[current]._next, fuel - 1)

\* to_python(), as node ids: the elements from head to tail
to_python(heap, head) == to_python_from(heap, head, Len(heap))

(***************************************************************************)
(* SpecQueue: any sequence of enqueue, dequeue, size and is_empty calls on *)
(* an ItalianQueue that starts empty.                                      *)
(***************************************************************************)
ThisQueue == [nodes |-> nodes, _head |-> _head, _tail |-> _tail, _size |-> _size]

SetQueue(q) ==
    /\ nodes' = q.nodes
    /\ _head' = q._head
    /\ _tail' = q._tail
    /\ _size' = q._size

Enqueue(v, g) ==
    /\ Len(nodes) < MaxNodes
    /\ call' = [op |-> "enqueue", args |-> <<v, g>>]
    /\ ret' = Return(None)
    /\ SetQueue(enqueue(ThisQueue, v, g))
    /\ UNCHANGED <<_edges, pre, visitVars>>

Dequeue ==
    /\ call' = [op |-> "dequeue", args |-> <<>>]
    /\ IF dequeue_raises(ThisQueue)
       THEN /\ ret' = Raise
            /\ UNCHANGED italianVars
       ELSE /\ ret' = Return(dequeue_result(ThisQueue))
            /\ SetQueue(dequeue(ThisQueue))
    /\ UNCHANGED <<_edges, pre, visitVars>>

Size ==
    /\ call' = [op |-> "size", args |-> <<>>]
    /\ ret' = Return(size(ThisQueue))
    /\ UNCHANGED <<_edges, pre, visitVars, italianVars>>

IsEmpty ==
    /\ call' = [op |-> "is_empty", args |-> <<>>]
    /\ ret' = Return(queue_is_empty(ThisQueue))
    /\ UNCHANGED <<_edges, pre, visitVars, italianVars>>

NextQueue ==
    \/ \E v \in QueueData, g \in QueueGroups : Enqueue(v, g)
    \/ Dequeue
    \/ Size
    \/ IsEmpty

SpecQueue == Init /\ [][NextQueue]_vars

(***************************************************************************)
(* Graph-theoretic definitions the properties are stated with.  They are   *)
(* independent of the traversals above.                                    *)
(***************************************************************************)
Targets(g, S) == UNION {Elems(g[u]) : u \in S \cap DOMAIN g}

RECURSIVE Within(_, _, _)
\* the vertices some directed path of at most k edges leads to from s
Within(g, s, k) ==
    IF k = 0 THEN {s}
    ELSE LET W == Within(g, s, k - 1) IN W \cup Targets(g, W)

Reachable(g, s) == Within(g, s, Cardinality(DOMAIN g))

\* the number of edges of a shortest directed path from s to v
Dist(g, s, v) ==
    CHOOSE k \in 0..Cardinality(DOMAIN g) :
        /\ v \in Within(g, s, k)
        /\ \A j \in 0..(k - 1) : v \notin Within(g, s, j)

Returned(op) == pc = "done" /\ call.op = op /\ ret.kind = "return"

Source == call.args[1]

\* the call was made without a Visit: dfs made a fresh one
Fresh == Len(call.args) = 1

(***************************************************************************)
(* C1  distances(s) maps exactly the registered vertices; s to 0, every    *)
(* vertex reachable from s to the length of a shortest path from s, every  *)
(* other vertex to -1.                                                     *)
(***************************************************************************)
C1_DistancesAreShortest ==
    Returned("distances") =>
        /\ DOMAIN ret.value = verteces(_edges)
        /\ ret.value[Source] = 0
        /\ \A v \in verteces(_edges) :
              ret.value[v] = IF v \in Reachable(_edges, Source)
                             THEN Dist(_edges, Source, v)
                             ELSE -1

(***************************************************************************)
(* C2  When dfs(s) on a fresh Visit returns, every discovered vertex has   *)
(* discovery_time < finish_time, and a descendant d of v in the parent     *)
(* tree has v.discovery_time < d.discovery_time < d.finish_time <          *)
(* v.finish_time.                                                          *)
(***************************************************************************)
\* v holds a parent link: one that was assigned and is still in its log
HasParent(v) == \E w \in writes : w[1] = v /\ w[2] = _logs[v].parent

RECURSIVE AncestorsUpTo(_, _)
AncestorsUpTo(v, n) ==
    IF n = 0 \/ ~HasParent(v) THEN {}
    ELSE {_logs[v].parent} \cup AncestorsUpTo(_logs[v].parent, n - 1)

Ancestors(v) == AncestorsUpTo(v, Cardinality(DOMAIN _logs))

C2_DfsParenthesis ==
    (Returned("dfs") /\ Fresh) =>
        /\ \A v \in logs_kept(_logs) :
              _logs[v].discovery_time < _logs[v].finish_time
        /\ \A d \in logs_kept(_logs) : \A v \in Ancestors(d) :
              /\ _logs[v].discovery_time < _logs[d].discovery_time
              /\ _logs[d].discovery_time < _logs[d].finish_time
              /\ _logs[d].finish_time < _logs[v].finish_time

\* a dfs that returned a tree with a grandchild and a vertex outside it
C2_Witness ==
    /\ Returned("dfs")
    /\ Fresh
    /\ \E d \in logs_kept(_logs) : Cardinality(Ancestors(d)) >= 2
    /\ \E v \in logs_kept(_logs) : v # Source /\ Ancestors(v) = {Source}

(***************************************************************************)
(* C3  bfs(s).verteces() starts with s and lists the discovered vertices   *)
(* in non-decreasing order of their shortest-path distance from s.         *)
(***************************************************************************)
C3_BfsOrderByDistance ==
    Returned("bfs") =>
        \A o \in visit_verteces(_logs) :
            /\ o[1] = Source
            /\ \A i, j \in 1..Len(o) :
                  i < j => Dist(_edges, Source, o[i]) <= Dist(_edges, Source, o[j])

\* a bfs that found two vertices at distance 1 and one at distance 2
C3_Witness ==
    /\ Returned("bfs")
    /\ \E u, v, w \in logs_kept(_logs) :
          /\ u # v
          /\ Dist(_edges, Source, u) = 1
          /\ Dist(_edges, Source, v) = 1
          /\ Dist(_edges, Source, w) = 2

(***************************************************************************)
(* C4  During bfs(s) the parent of a vertex is written at most once; the   *)
(* final parent of a discovered v # s is the first discovered vertex with  *)
(* an edge to v; s never receives a parent.                                *)
(***************************************************************************)
WritesTo(v) == {w \in writes : w[1] = v}

\* the discovered vertices with an edge to v
DiscoveredInto(v) ==
    {u \in logs_kept(_logs) : has_edge(_edges, u, v)}

C4_BfsFirstWriterWins ==
    call.op = "bfs" =>
        /\ \A v \in Vertices : Cardinality(WritesTo(v)) <= 1
        /\ WritesTo(Source) = {}
        /\ Returned("bfs") =>
              /\ _logs[Source].parent = None
              /\ \A v \in logs_kept(_logs) \ {Source} :
                    /\ _logs[v].parent \in DiscoveredInto(v)
                    /\ \A u \in DiscoveredInto(v) :
                          _logs[_logs[v].parent].discovery_time
                              <= _logs[u].discovery_time

(***************************************************************************)
(* C5  The parent links of bfs(s) form a shortest-path tree rooted at s:   *)
(* for a discovered v # s, parent(v) is discovered, (parent(v), v) is an   *)
(* edge, dist(s, parent(v)) + 1 = dist(s, v), and the parent links lead    *)
(* from v to s in exactly dist(s, v) steps.                                *)
(***************************************************************************)
RECURSIVE Climb(_, _)
\* where n parent links lead from v; {} when a link is missing on the way
Climb(v, n) ==
    IF n = 0 THEN {v}
    ELSE IF v \notin DOMAIN _logs \/ v = Source THEN {}
    ELSE Climb(_logs[v].parent, n - 1)

C5_BfsShortestPathTree ==
    Returned("bfs") =>
        \A v \in logs_kept(_logs) \ {Source} :
            /\ _logs[v].parent \in logs_kept(_logs)
            /\ has_edge(_edges, _logs[v].parent, v)
            /\ Dist(_edges, Source, _logs[v].parent) + 1 = Dist(_edges, Source, v)
            /\ Climb(v, Dist(_edges, Source, v)) = {Source}

(***************************************************************************)
(* What C1, C4 and C5 state does hold of every graph that does not hold    *)
(* None as a vertex: the three fail through the parent sentinel alone.     *)
(***************************************************************************)
WithoutNoneVertex ==
    None \notin verteces(_edges) =>
        /\ C1_DistancesAreShortest
        /\ C4_BfsFirstWriterWins
        /\ C5_BfsShortestPathTree

(***************************************************************************)
(* C6  No adjacency sequence holds the same target twice, whatever calls   *)
(* were made; add_edge(u, v) called again changes nothing and adj(u) holds *)
(* v exactly once.                                                         *)
(***************************************************************************)
Count(list, x) == Cardinality({i \in 1..Len(list) : list[i] = x})

C6_NoDuplicateTargets ==
    /\ \A u \in verteces(_edges) : \A v \in Elems(_edges[u]) :
          Count(_edges[u], v) = 1
    /\ (call.op = "add_edge" /\ ret.kind = "return") =>
          /\ add_edge(_edges, call.args[1], call.args[2]) = _edges
          /\ Count(adj(_edges, call.args[1]), call.args[2]) = 1

\* an add_edge call for an edge the graph already had
C6_Witness ==
    /\ call.op = "add_edge"
    /\ ret.kind = "return"
    /\ has_edge(pre, call.args[1], call.args[2])
    /\ Len(_edges[call.args[1]]) >= 2

(***************************************************************************)
(* C7  reverse() keeps the vertex set and leaves exactly the transpose of  *)
(* the edges the graph had when it was called.                             *)
(***************************************************************************)
C7_ReverseIsTranspose ==
    call.op = "reverse" =>
        /\ verteces(_edges) = verteces(pre)
        /\ \A u, w \in verteces(pre) :
              has_edge(_edges, u, w) <=> has_edge(pre, w, u)

\* a reverse of a graph with a one-way edge, a self-loop and a bare vertex
C7_Witness ==
    /\ call.op = "reverse"
    /\ \E u, w \in verteces(pre) :
          u # w /\ has_edge(pre, u, w) /\ ~has_edge(pre, w, u)
    /\ \E v \in verteces(pre) : has_edge(pre, v, v)
    /\ \E v \in verteces(pre) :
          pre[v] = <<>> /\ \A u \in verteces(pre) : ~has_edge(pre, u, v)

(***************************************************************************)
(* C8  reverse() called twice gives a graph == to the graph before the     *)
(* two calls.                                                              *)
(***************************************************************************)
C8_ReverseTwiceIsEqual ==
    call.op = "reverse" =>
        \A keys \in Orders(verteces(_edges)) : eq(reverse(_edges, keys), pre)

\* a second reverse that restores the edges in another adjacency order
C8_Witness ==
    /\ call.op = "reverse"
    /\ pre # _edges
    /\ \E keys \in Orders(verteces(_edges)) : reverse(_edges, keys) # pre

(***************************************************************************)
(* C9  remove_vertex, add_edge, has_edge and adj raise whenever a vertex   *)
(* they are given is not registered, and a call that raises leaves the     *)
(* graph as it was.                                                        *)
(***************************************************************************)
C9_UnknownVertexRaises ==
    call.op \in {"remove_vertex", "add_edge", "has_edge", "adj"} =>
        /\ (\E i \in 1..Len(call.args) : call.args[i] \notin verteces(pre)) =>
              ret.kind = "raise"
        /\ ret.kind = "raise" => _edges = pre

\* an add_edge whose source is registered and whose target is not
C9_Witness ==
    /\ call.op = "add_edge"
    /\ ret.kind = "raise"
    /\ call.args[1] \in verteces(pre)
    /\ call.args[2] \notin verteces(pre)
    /\ NumEdges(_edges) >= 1

(***************************************************************************)
(* C10  As claimed: dfs fails if and only if the graph has no vertices.    *)
(***************************************************************************)
C10_DfsFailsOnlyOnEmptyGraph ==
    (pc = "done" /\ call.op = "dfs") =>
        (ret.kind = "raise" <=> is_empty(_edges))

(***************************************************************************)
(* C10, amended  dfs fails if and only if the graph has no vertices or its *)
(* source is not a registered vertex; a dfs that is running or has         *)
(* returned was given a registered source.                                 *)
(***************************************************************************)
C10_DfsFailsOnEmptyOrUnknownSource ==
    call.op = "dfs" =>
        /\ pc = "done" =>
              (ret.kind = "raise" <=>
                  (is_empty(_edges) \/ Source \notin verteces(_edges)))
        /\ pc = "dfs" => Source \in verteces(_edges) /\ stack # <<>>

\* a dfs that raised on a graph that has vertices
C10_Witness ==
    /\ pc = "done"
    /\ call.op = "dfs"
    /\ ret.kind = "raise"
    /\ ~is_empty(_edges)

(***************************************************************************)
(* C11, as claimed  remove_vertex(v) of a registered v removes v from the  *)
(* vertex set and from every adjacency sequence, leaves all else as it     *)
(* was, and returns the adjacency sequence v had before the call, v itself *)
(* included when v had a self-loop.                                        *)
(***************************************************************************)
\* list without the entries equal to x, the order of the others kept
Without(list, x) == LET keep(y) == y # x IN SelectSeq(list, keep)

RemovedVertex ==
    call.op = "remove_vertex" /\ ret.kind = "return"

RemoveVertexEffect ==
    /\ verteces(_edges) = verteces(pre) \ {call.args[1]}
    /\ \A u \in verteces(_edges) : _edges[u] = Without(pre[u], call.args[1])

C11_RemoveVertexReturnsOldAdjacency ==
    RemovedVertex =>
        /\ RemoveVertexEffect
        /\ ret.value = pre[call.args[1]]

(***************************************************************************)
(* C11, amended  ... and returns the adjacency sequence v had before the   *)
(* call with v itself taken out of it: a self-loop of v is stripped, like  *)
(* every other edge into v, before the sequence is popped.                 *)
(***************************************************************************)
C11_RemoveVertexReturnsStrippedAdjacency ==
    RemovedVertex =>
        /\ RemoveVertexEffect
        /\ ret.value = Without(pre[call.args[1]], call.args[1])

\* a removed vertex that had a self-loop, another target and an edge into it
C11_Witness ==
    /\ RemovedVertex
    /\ has_edge(pre, call.args[1], call.args[1])
    /\ ret.value # <<>>
    /\ \E u \in verteces(_edges) : has_edge(pre, u, call.args[1])

(***************************************************************************)
(* C17  remove_self_loops() leaves no self-loop, keeps the vertex set and  *)
(* every other edge, each adjacency sequence in its order; has_self_loops  *)
(* is true iff some vertex has an edge to itself, and changes nothing.     *)
(***************************************************************************)
C17_SelfLoops ==
    /\ call.op = "remove_self_loops" =>
          /\ ~has_self_loops(_edges)
          /\ \A v \in verteces(_edges) : ~has_edge(_edges, v, v)
          /\ verteces(_edges) = verteces(pre)
          /\ \A u \in verteces(pre) : _edges[u] = Without(pre[u], u)
    /\ call.op = "has_self_loops" =>
          /\ ret.value = (\E v \in verteces(pre) : has_edge(pre, v, v))
          /\ _edges = pre

\* self-loops removed from a vertex whose loop was not its first target
C17_Witness ==
    /\ call.op = "remove_self_loops"
    /\ \E u \in verteces(pre) :
          /\ has_edge(pre, u, u)
          /\ Head(pre[u]) # u
          /\ Len(pre[u]) >= 3

(***************************************************************************)
(* C20  Whatever calls were made, failing ones included, every target in   *)
(* an adjacency sequence is a registered vertex.                           *)
(***************************************************************************)
C20_NoDanglingEdge ==
    \A u \in verteces(_edges) : Elems(_edges[u]) \subseteq verteces(_edges)

\* a vertex with an edge into it was removed, and its source is still there
C20_Witness ==
    /\ RemovedVertex
    /\ \E u \in verteces(_edges) : has_edge(pre, u, call.args[1])
    /\ NumEdges(_edges) >= 1

(***************************************************************************)
(* C12  Every timestamp written to a discovery_time or finish_time is the  *)
(* largest timestamp of the Visit just before the write plus 1, so no two  *)
(* timestamp fields of a Visit hold the same value; a dfs on a fresh Visit *)
(* that discovers k vertices uses exactly 1..2k and a bfs that discovers k *)
(* vertices exactly 1..k.                                                  *)
(***************************************************************************)
\* the timestamp fields of a Visit that hold a time, and the times they hold
TimeFields(logs) ==
    {<<v, "discovery_time">> : v \in {w \in DOMAIN logs : logs[w].discovery_time # -1}}
    \cup {<<v, "finish_time">> : v \in {w \in DOMAIN logs : logs[w].finish_time # -1}}

TimeOf(logs, f) ==
    IF f[2] = "discovery_time" THEN logs[f[1]].discovery_time ELSE logs[f[1]].finish_time

Times(logs) == {TimeOf(logs, f) : f \in TimeFields(logs)}

\* the fields the step wrote a time to
Written ==
    {f \in TimeFields(_logs') : f \notin TimeFields(_logs) \/ TimeOf(_logs', f) # TimeOf(_logs, f)}

\* the largest timestamp present in a Visit, 0 when it holds none
Largest(logs) ==
    LET T == Times(logs) \cup {0} IN CHOOSE t \in T : \A u \in T : u <= t

C12_ClockStep ==
    \A f \in Written : TimeOf(_logs', f) = Largest(_logs) + 1

C12_ClockState ==
    /\ \A f1, f2 \in TimeFields(_logs) :
          f1 # f2 => TimeOf(_logs, f1) # TimeOf(_logs, f2)
    /\ (Returned("dfs") /\ Fresh) =>
          Times(_logs) = 1..(2 * Cardinality(logs_kept(_logs)))
    /\ Returned("bfs") =>
          /\ Times(_logs) = 1..Cardinality(logs_kept(_logs))
          /\ \A v \in DOMAIN _logs : _logs[v].finish_time = -1

C12_LogicalClock == [][C12_ClockStep]_vars /\ []C12_ClockState

\* a second dfs call on the same Visit returned after it discovered a vertex
\* the first call had not reached
C12_Witness ==
    /\ Returned("dfs")
    /\ ~Fresh
    /\ \E v \in logs_kept(_logs) \ logs_kept(call.args[2]) :
          HasParent(v) /\ _logs[v].finish_time # -1
    /\ Cardinality(logs_kept(_logs)) >= 3

(***************************************************************************)
(* C13  Across dfs calls that share one Visit, whatever their sources, a   *)
(* discovery_time or finish_time that was set is never changed again.      *)
(***************************************************************************)
C13_TimesStay ==
    \A f \in TimeFields(_logs) :
        f \in TimeFields(_logs') /\ TimeOf(_logs', f) = TimeOf(_logs, f)

C13_DiscoveredAtMostOnce == [][call'.op = "dfs" => C13_TimesStay]_vars

(***************************************************************************)
(* C14  Across dfs calls that share one Visit, the parent of v is written  *)
(* at most once, through an edge (p, v) with p discovered before v, and    *)
(* the source of a top-level call has no parent when the call returns.     *)
(***************************************************************************)
C14_ParentWrittenOnce ==
    call.op = "dfs" =>
        \A v \in DOMAIN _logs :
            /\ Cardinality(WritesTo(v)) <= 1
            /\ \A w \in WritesTo(v) :
                  /\ w[2] = _logs[v].parent
                  /\ has_edge(_edges, w[2], v)

C14_ParentTree ==
    /\ C14_ParentWrittenOnce
    /\ call.op = "dfs" =>
          \A v \in DOMAIN _logs : \A w \in WritesTo(v) :
              _logs[w[2]].discovery_time < _logs[v].discovery_time
    /\ Returned("dfs") => _logs[Source].parent = None

(***************************************************************************)
(* C19  bfs(s) and distances(s) terminate on every graph with registered   *)
(* s, cycles and self-loops included: the adjacency of a vertex is         *)
(* expanded only at the pop where the vertex is first discovered, the      *)
(* number of queue.put calls is at most 1 + the number of edges, and the   *)
(* queue becomes empty.                                                    *)
(***************************************************************************)
InQueueLoop == pc \in {"bfs", "distances"}

C19_PutsBounded ==
    /\ puts <= 1 + NumEdges(_edges)
    /\ Len(queue) <= puts

\* a pop of a discovered vertex changes nothing but the queue; a pop of an
\* undiscovered one discovers it and puts its targets; what is discovered
\* stays discovered
C19_ExpandedOnce ==
    (InQueueLoop /\ pc' = pc) =>
        /\ IF is_discovered(_logs, Head(queue))
           THEN /\ puts' = puts
                /\ _logs' = _logs
                /\ queue' = Tail(queue)
           ELSE /\ puts' = puts + Len(_edges[Head(queue)])
                /\ queue' = Tail(queue) \o _edges[Head(queue)]
                /\ is_discovered(_logs', Head(queue))
        /\ \A v \in DOMAIN _logs : is_discovered(_logs, v) => is_discovered(_logs', v)

C19_QueueTraversalsTerminate ==
    /\ []C19_PutsBounded
    /\ [][C19_ExpandedOnce]_vars
    /\ InQueueLoop ~> (pc = "done" /\ queue = <<>> /\ ret.kind = "return")

\* a traversal of a graph with a cycle and a self-loop came to its end after
\* it put some vertex more than once
C19_Witness ==
    /\ pc = "done"
    /\ call.op \in {"bfs", "distances"}
    /\ ret.kind = "return"
    /\ has_self_loops(_edges)
    /\ \E u, v \in verteces(_edges) :
          u # v /\ has_edge(_edges, u, v) /\ has_edge(_edges, v, u)
    /\ puts > Cardinality(logs_kept(_logs))

(***************************************************************************)
(* C15  g1 == g2 is true exactly when the two graphs have the same vertex  *)
(* set and every vertex the same set of targets, whatever the order the    *)
(* vertices and edges were added in; and g1 == g2 iff g2 == g1.            *)
(***************************************************************************)
SameGraph(g1, g2) ==
    /\ verteces(g1) = verteces(g2)
    /\ \A u \in verteces(g1) : \A w \in verteces(g1) :
          has_edge(g1, u, w) <=> has_edge(g2, u, w)

C15_EqIgnoresOrder ==
    call.op = "__eq__" =>
        /\ ret.value = SameGraph(_edges, call.args[1])
        /\ ret.value = eq(call.args[1], _edges)

\* two graphs that are equal although some adjacency list differs in order
C15_Witness ==
    /\ call.op = "__eq__"
    /\ ret.value
    /\ _edges # call.args[1]
    /\ NumEdges(_edges) >= 3

(***************************************************************************)
(* C16  For every list of vertices, whatever its length and contents, the  *)
(* graph dag returns has no self-loop, has_self_loops() is false on it,    *)
(* and no vertex reaches itself through one or more edges.                 *)
(***************************************************************************)
\* v reaches itself through one or more edges
OnCycle(g, v) == \E w \in Elems(g[v]) : v \in Reachable(g, w)

DagReturned == pc = "done" /\ call.op \in {"dag", "has_self_loops"}

C16_DagIsAcyclic ==
    DagReturned =>
        /\ \A v \in verteces(_edges) : ~has_edge(_edges, v, v) /\ ~OnCycle(_edges, v)
        /\ call.op = "has_self_loops" => ret.value = FALSE

\* what holds of the code: the graph is acyclic when no vertex is listed twice
C16_DagOfDistinctVerteces ==
    (pc = "done" /\ call.op = "dag") =>
        LET list == call.args[1]
        IN  (\A i, j \in 1..Len(list) : i # j => list[i] # list[j]) =>
                /\ \A v \in verteces(_edges) : ~OnCycle(_edges, v)
                /\ \A i, j \in 1..Len(list) :
                      has_edge(_edges, list[i], list[j]) <=> i < j

(***************************************************************************)
(* C18  enqueue(v, g) places the new element right after the last element  *)
(* of the run of group g when the queue holds an element of group g, and   *)
(* at the end otherwise; the elements queued before keep their order; and  *)
(* dequeue() returns the elements in head-to-tail order.                   *)
(***************************************************************************)
\* the positions of a head-to-tail list of nodes that hold group g
InGroup(heap, list, g) == {i \in 1..Len(list) : heap[list[i]]._group = g}

Last(S) == CHOOSE i \in S : \A j \in S : j <= i

C18_EnqueueStep ==
    LET old == to_python(nodes, _head)
        new == to_python(nodes', _head')
        n == Len(nodes')
        same == InGroup(nodes, old, call'.args[2])
    IN  /\ nodes'[n]._data = call'.args[1]
        /\ nodes'[n]._group = call'.args[2]
        /\ \A i \in 1..Len(nodes) :
              nodes'[i]._data = nodes[i]._data /\ nodes'[i]._group = nodes[i]._group
        /\ IF same # {}
           THEN new = SubSeq(old, 1, Last(same)) \o <<n>>
                          \o SubSeq(old, Last(same) + 1, Len(old))
           ELSE new = old \o <<n>>

C18_DequeueStep ==
    LET old == to_python(nodes, _head)
        new == to_python(nodes', _head')
    IN  IF old = <<>>
        THEN ret'.kind = "raise" /\ new = old
        ELSE ret' = Return(nodes[Head(old)]._data) /\ new = Tail(old)

\* the elements of a group stand next to each other
C18_OneRunPerGroup ==
    LET list == to_python(nodes, _head)
    IN  \A i, j, k \in 1..Len(list) :
            (i < j /\ j < k /\ nodes[list[i]]._group = nodes[list[k]]._group)
                => nodes[list[j]]._group = nodes[list[i]]._group

C18_EnqueueAfterGroup ==
    /\ [][/\ call'.op = "enqueue" => C18_EnqueueStep
          /\ call'.op = "dequeue" => C18_DequeueStep]_vars
    /\ []C18_OneRunPerGroup

\* an enqueue that put its element between two others of a queue that had
\* been dequeued from
C18_Witness ==
    LET list == to_python(nodes, _head)
    IN  /\ call.op = "enqueue"
        /\ Len(list) >= 3
        /\ Len(nodes) > Len(list)
        /\ \E i \in 2..(Len(list) - 1) : list[i] = Len(nodes)

(***************************************************************************)
(* C21  When dfs(s) on a fresh Visit returns, the vertices that hold a     *)
(* discovery_time and a finish_time are exactly the vertices reachable     *)
(* from s, s included; the Visit holds no log of any other vertex; and the *)
(* graph is as it was before the call.                                     *)
(***************************************************************************)
C21_DfsDiscoversReachable ==
    (Returned("dfs") /\ Fresh) =>
        /\ \A v \in verteces(_edges) :
              (v \in Reachable(_edges, Source)) <=>
                  (/\ v \in DOMAIN _logs
                   /\ _logs[v].discovery_time # -1
                   /\ _logs[v].finish_time # -1)
        /\ DOMAIN _logs = Reachable(_edges, Source)
        /\ ret.value = _logs
        /\ _edges = pre

\* a dfs that returned on a graph with a cycle, some vertices out of reach
\* and an edge from one of them into the part it visited
C21_Witness ==
    /\ Returned("dfs")
    /\ Fresh
    /\ Cardinality(DOMAIN _logs) >= 2
    /\ Source \in Targets(_edges, DOMAIN _logs)
    /\ \E u \in verteces(_edges) \ DOMAIN _logs : Targets(_edges, {u}) \cap DOMAIN _logs # {}

(***************************************************************************)
(* C22  After any sequence of enqueue and dequeue calls on a queue that    *)
(* starts empty, the elements of a group are contiguous: no two elements   *)
(* of a group are separated by an element of another group.                *)
(***************************************************************************)
\* the groups of the elements, from head to tail
GroupsInOrder ==
    LET list == to_python(nodes, _head)
    IN  [i \in 1..Len(list) |-> nodes[list[i]]._group]

C22_GroupsContiguous ==
    \A g \in QueueGroups :
        LET at == {i \in 1..Len(GroupsInOrder) : GroupsInOrder[i] = g}
        IN  \A i \in at : \A j \in at :
                \A k \in 1..Len(GroupsInOrder) : (i < k /\ k < j) => k \in at

\* a queue that was dequeued from, holding two elements of one group and
\* then one of another, its last enqueue having gone into the first group
C22_Witness ==
    /\ call.op = "enqueue"
    /\ Len(GroupsInOrder) = 3
    /\ GroupsInOrder[1] = GroupsInOrder[2]
    /\ GroupsInOrder[2] # GroupsInOrder[3]
    /\ call.args[2] = GroupsInOrder[1]
    /\ to_python(nodes, _head)[2] = Len(nodes)
    /\ Len(nodes) > 3

(***************************************************************************)
(* C23  After any sequence of enqueue and dequeue calls, failing dequeues  *)
(* included, size() is the number of nodes reachable from the head,        *)
(* is_empty() holds iff size() is 0, head and tail are both none iff the   *)
(* queue is empty, and otherwise tail is the last node reachable from the  *)
(* head, its next being none.                                              *)
(***************************************************************************)
C23_SizeHeadTail ==
    LET list == to_python(nodes, _head)
    IN  /\ size(ThisQueue) = Len(list)
        /\ queue_is_empty(ThisQueue) <=> size(ThisQueue) = 0
        /\ (_head = NoNode) <=> (list = <<>>)
        /\ (_tail = NoNode) <=> (list = <<>>)
        /\ list # <<>> =>
              /\ _tail = list[Len(list)]
              /\ nodes[_tail]._next = NoNode
        /\ call.op = "size" => ret.value = Len(list)
        /\ call.op = "is_empty" => ret.value = (Len(list) = 0)

\* size() called on a queue that was dequeued from and whose last enqueue
\* put its node in the middle, the tail staying where it was
C23_Witness ==
    LET list == to_python(nodes, _head)
    IN  /\ call.op = "size"
        /\ ret.value = 3
        /\ Len(nodes) = 4
        /\ list[1] = 2
        /\ list[2] = 4
        /\ _tail = 3

=============================================================================
